---- MODULE Spec2Model ----
(***************************************************************************)
(* helperFunctions.py of dumpLeakageCalorimeter: the statistics helper     *)
(* ratio, the fit functions linFct, quadFct and chargeFct, and the data    *)
(* accessors getDOOCS and getCALO, as a state machine whose steps are      *)
(* calls of these functions by a single-threaded caller.                   *)
(*                                                                         *)
(* Numbers.  Python floats are modelled by exact rationals [n, d] in       *)
(* lowest terms with d > 0 (IEEE rounding is not modelled); a value that   *)
(* is the square root of a non-square rational r is kept as                *)
(* [n |-> r.n, d |-> r.d, surd |-> TRUE].  Sequences are 1-based, so the   *)
(* source's p[k] is p[k+1] here.                                           *)
(***************************************************************************)
EXTENDS Integers, Sequences, FiniteSets, TLC

VARIABLES
    pc,           \* "idle", or "done" when a call has just ended
    call,         \* the function called and its arguments
    result,       \* the value the call returned or the exception it raised
    events,       \* the file operations of the call, in order
    openHandles   \* the file handles the process holds open

vars == <<pc, call, result, events, openHandles>>

----------------------------------------------------------------------------
(* Module constants, src/helperFunctions.py:5-14                           *)

\* dacConv = 2000 / 2**14 = 125/1024 mV per count
dacConvNum == 125
dacConvDen == 1024

samplingTime == 2

tot_absTh == 120

\* tot_relTh = 0.15 = 3/20
tot_relThNum == 3
tot_relThDen == 20

\* the noise floor of the validity mask, in mV
maskTh == 50

\* the divisor 1e3 of the integral
intDiv == 1000

----------------------------------------------------------------------------
(* Bounds of the model                                                     *)

\* events in a run file
MaxEvents == 2

\* samples in a waveform
NSamples == 5

\* entries of a beamline array
MaxShots == 2

\* file handles the process may hold open at once
MaxOpenHandles == 1

----------------------------------------------------------------------------
(* Exact arithmetic                                                        *)

Abs(i) == IF i < 0 THEN -i ELSE i

Range(s) == {s[i] : i \in DOMAIN s}

RECURSIVE GCD(_, _)
GCD(a, b) == IF b = 0 THEN a ELSE GCD(b, a % b)

\* the rational n/d (d # 0) in lowest terms with a positive denominator
Frac(n, d) ==
    LET g == GCD(Abs(n), Abs(d))
        s == IF d < 0 THEN -1 ELSE 1
    IN  [n |-> (s * n) \div g, d |-> (s * d) \div g]

FInt(i) == [n |-> i, d |-> 1]
\* sums over the least common denominator, which keeps the products small
FAdd(a, b) ==
    LET l == (a.d \div GCD(a.d, b.d)) * b.d
    IN  Frac(a.n * (l \div a.d) + b.n * (l \div b.d), l)
FNeg(a) == [n |-> -a.n, d |-> a.d]
FSub(a, b) == FAdd(a, FNeg(b))
FMul(a, b) == Frac(a.n * b.n, a.d * b.d)
FDiv(a, b) == Frac(a.n * b.d, a.d * b.n)
FAbs(a) == [n |-> Abs(a.n), d |-> a.d]
FGt(a, b) == a.n * b.d > b.n * a.d

RECURSIVE FSumTo(_, _)
FSumTo(s, k) == IF k = 0 THEN FInt(0) ELSE FAdd(FSumTo(s, k - 1), s[k])

\* the sum of the entries of s
FSum(s) == FSumTo(s, Len(s))

RECURSIVE ISqrtIn(_, _, _)
\* the r in lo..(hi - 1) with r*r <= n < (r+1)*(r+1), given lo*lo <= n < hi*hi
ISqrtIn(n, lo, hi) ==
    IF hi - lo <= 1 THEN lo
    ELSE LET mid == (lo + hi) \div 2
         IN  IF mid * mid <= n THEN ISqrtIn(n, mid, hi) ELSE ISqrtIn(n, lo, mid)

\* the largest r with r*r <= n, for 0 <= n < 2^31
ISqrt(n) == ISqrtIn(n, 0, 46341)

IsSquare(n) == ISqrt(n) * ISqrt(n) = n

\* IEEE values as extended rationals: n/0 is inf (n = 1), -inf (n = -1), nan (n = 0)
Inf == [n |-> 1, d |-> 0, surd |-> FALSE]
NaN == [n |-> 0, d |-> 0, surd |-> FALSE]

\* a rational as a real value
Real(q) == [n |-> q.n, d |-> q.d, surd |-> FALSE]

\* np.sqrt of a rational q >= 0
Sqrt(q) ==
    IF IsSquare(q.n) /\ IsSquare(q.d)
    THEN [n |-> ISqrt(q.n), d |-> ISqrt(q.d), surd |-> FALSE]
    ELSE [n |-> q.n, d |-> q.d, surd |-> TRUE]

\* r > t for a real r >= 0 and an integer t >= 0
RealGt(r, t) ==
    IF r.surd THEN r.n > t * t * r.d ELSE r.n > t * r.d

\* r >= t for a real r >= 0 and an integer t >= 0
RealGe(r, t) ==
    IF r.surd THEN r.n >= t * t * r.d ELSE r.n >= t * r.d

----------------------------------------------------------------------------
(* Outcomes of a call                                                      *)

Return(v) == [kind |-> "return", val |-> v]
Raise(e) == [kind |-> "raise", exc |-> e]
NoResult == [kind |-> "none"]

\* raise ValueError(f'type "{type}" not implemented')
ValueErrorFor(type) ==
    [kind |-> "raise", exc |-> "ValueError",
     msg |-> <<"type \"", type, "\" not implemented">>]

----------------------------------------------------------------------------
(* ratio, src/helperFunctions.py:38-45                                     *)

\* A[0] / B[0] with B[0] # 0
ratioValue(A, B) == Real(Frac(A[1], B[1]))

\* ratioErr with A's value where its error belongs in the first term
ratioErr_valueForError(A, B) ==
    LET t1 == Frac(A[1], B[1])
        t2 == Frac(A[1] * B[2], B[1] * B[1])
    IN  Sqrt(FAdd(FMul(t1, t1), FMul(t2, t2)))

\* np.sqrt( (A[1]/B[0])**2 + (A[0]*B[1]/B[0]**2)**2 ) with B[0] # 0
ratioErr(A, B) ==
    LET t1 == Frac(A[2], B[1])
        t2 == Frac(A[1] * B[2], B[1] * B[1])
    IN  Sqrt(FAdd(FMul(t1, t1), FMul(t2, t2)))

\* the same two lines where B[0] = 0 and the operands are numpy floats:
\* x/0 is nan for x = 0 and +-inf otherwise, and nan absorbs the sum
ratioValueDiv0(A) ==
    IF A[1] = 0 THEN NaN ELSE [n |-> IF A[1] < 0 THEN -1 ELSE 1, d |-> 0, surd |-> FALSE]

ratioErrDiv0(A, B) == IF A[2] = 0 \/ A[1] * B[2] = 0 THEN NaN ELSE Inf

\* np: the operands are numpy floats (division by zero yields inf/nan);
\* otherwise they are Python numbers and line 42 raises ZeroDivisionError
ratio(A, B, np) ==
    IF B[1] # 0 THEN Return(<<ratioValue(A, B), ratioErr(A, B)>>)
    ELSE IF np THEN Return(<<ratioValueDiv0(A), ratioErrDiv0(A, B)>>)
    ELSE Raise("ZeroDivisionError")

----------------------------------------------------------------------------
(* Python's binding of a call's arguments to a function's parameters       *)

Num(i) == [vec |-> FALSE, n |-> i, v |-> <<>>]
Vec(s) == [vec |-> TRUE, n |-> 0, v |-> s]

\* the parameters the keyword arguments name
KwNames(kw) == {kw[i].name : i \in DOMAIN kw}

\* params: the def's parameter names, none with a default (lines 55, 64, 73);
\* pos: the positional arguments; kw: the keyword arguments
BindOK(params, pos, kw) ==
    /\ Len(pos) <= Len(params)
    /\ KwNames(kw) \subseteq Range(params)
    /\ \A i \in 1..Len(pos) : params[i] \notin KwNames(kw)
    /\ \A i \in (Len(pos) + 1)..Len(params) : params[i] \in KwNames(kw)

\* the argument bound to parameter name
Bound(params, pos, kw, name) ==
    LET i == CHOOSE j \in DOMAIN params : params[j] = name
    IN  IF i <= Len(pos) THEN pos[i]
        ELSE (CHOOSE a \in Range(kw) : a.name = name).val

FitParams == <<"p", "x">>

\* what the subscripts p[0] .. p[k-1] do: "ok", or the exception raised
Subscript(p, k) ==
    IF ~p.vec THEN "TypeError"
    ELSE IF Len(p.v) < k THEN "IndexError"
    ELSE "ok"

----------------------------------------------------------------------------
(* linFct, quadFct, chargeFct, src/helperFunctions.py:55-79                *)

\* linFctBody with the coefficients taken from the highest degree down
linFctBody_reversed(p, x) == p[1] * x + p[2]

\* return p[1]*x + p[0]
linFctBody(p, x) == p[2] * x + p[1]

\* return p[2]*x**2 + p[1]*x + p[0]
quadFctBody(p, x) == p[3] * x * x + p[2] * x + p[1]

\* chargeFctBody with the scale factor on the quadratic term alone
chargeFctBody_unparenthesised(p, x) == p[4] * p[3] * x * x + p[2] * x + p[1]

\* return p[3] * ( p[2]*x**2 + p[1]*x + p[0] )
chargeFctBody(p, x) == p[4] * (p[3] * x * x + p[2] * x + p[1])

\* the highest subscript of p each body uses, plus one
FitDegree(fn) ==
    CASE fn = "linFct" -> 2
      [] fn = "quadFct" -> 3
      [] fn = "chargeFct" -> 4

FitBody(fn, p, x) ==
    CASE fn = "linFct" -> linFctBody(p, x)
      [] fn = "quadFct" -> quadFctBody(p, x)
      [] fn = "chargeFct" -> chargeFctBody(p, x)

\* a call fn(*pos, **kw) of one of the three fit functions
FitCall(fn, pos, kw) ==
    IF ~BindOK(FitParams, pos, kw) THEN Raise("TypeError")
    ELSE LET p == Bound(FitParams, pos, kw, "p")
             x == Bound(FitParams, pos, kw, "x")
         IN  IF Subscript(p, FitDegree(fn)) # "ok"
             THEN Raise(Subscript(p, FitDegree(fn)))
             ELSE Return(FitBody(fn, p.v, x.n))

----------------------------------------------------------------------------
(* File handles.  events is the call's trace of file operations.           *)

RECURSIVE Count(_, _)
Count(s, e) ==
    IF s = <<>> THEN 0
    ELSE (IF Head(s) = e THEN 1 ELSE 0) + Count(Tail(s), e)

\* the handles a call with trace ev opened and did not close
OpenAtEnd(ev) == Count(ev, "open") - Count(ev, "close")

\* open() fails with OSError (EMFILE) once the process holds its limit
CanOpen(held) == held < MaxOpenHandles

----------------------------------------------------------------------------
(* getDOOCS, src/helperFunctions.py:82-108                                 *)

DOOCSTypes == {"charge", "posX", "posY"}

\* the archive's entry each type names (lines 101-106)
DOOCSKey(type) ==
    CASE type = "charge" -> "chargeToroid"
      [] type = "posX" -> "posX"
      [] type = "posY" -> "posY"

\* file: the run's archive, [exists, chargeToroid, posX, posY];
\* held: the handles the process holds open;
\* gc: the interpreter finalises the NpzFile (and so closes the file) as the
\*     call returns.  The function itself never closes it, and while the
\*     ValueError propagates its traceback keeps the frame, and data, alive.
getDOOCS(file, type, held, gc) ==
    IF ~CanOpen(held)
    THEN [result |-> Raise("OSError"), events |-> <<"open failed">>]
    ELSE IF ~file.exists
    THEN [result |-> Raise("FileNotFoundError"), events |-> <<"open failed">>]
    ELSE IF type \in DOOCSTypes
    THEN [result |-> Return(file[DOOCSKey(type)]),
          events |-> <<"open", "read">> \o (IF gc THEN <<"close">> ELSE <<>>)]
    ELSE [result |-> ValueErrorFor(type), events |-> <<"open">>]

----------------------------------------------------------------------------
(* getCALO, src/helperFunctions.py:110-181                                 *)

CALOTypes == {"amp", "ampPos", "int", "tot", "tot_rel", "adc", "wave"}

dacConv == Frac(dacConvNum, dacConvDen)

tot_relTh == Frac(tot_relThNum, tot_relThDen)

\* fd['data;1'][f'{name}{channel}'].array().to_numpy(): one entry per event
Column(evs, name) == [i \in DOMAIN evs |-> evs[i][name]]

\* sig_mV = abs(dacConv * (bsl[:,np.newaxis] - adc))
sig_mV(bsl, adc) ==
    [i \in DOMAIN adc |->
        [j \in DOMAIN adc[i] |-> FAbs(FMul(dacConv, FInt(bsl[i] - adc[i][j])))]]

\* time_ns = samplingTime * np.arange(sig_mV.shape[-1]); no later line uses it
time_ns(n) == [j \in 1..n |-> samplingTime * (j - 1)]

\* amplitude = abs(dacConv * amplitude column)
amplitude(col) == [i \in DOMAIN col |-> FAbs(FMul(dacConv, FInt(col[i])))]

\* amplitudePosition = samplingTime * amplitude_position column
amplitudePosition(col) == [i \in DOMAIN col |-> samplingTime * col[i]]

\* integral without the factor samplingTime
integral_perSample(col) ==
    [i \in DOMAIN col |-> FDiv(FAbs(FMul(dacConv, FInt(col[i]))), FInt(intDiv))]

\* integral = abs(dacConv * integral column) * samplingTime/1e3
integral(col) ==
    [i \in DOMAIN col |->
        FDiv(FMul(FAbs(FMul(dacConv, FInt(col[i]))), FInt(samplingTime)),
             FInt(intDiv))]

\* np.sum(row > th): the number of samples of the row above th
CountAbove(row, th) == Cardinality({j \in DOMAIN row : FGt(row[j], th)})

\* tot as a number of samples, not scaled to ns
tot_unscaled(sig) == [i \in DOMAIN sig |-> CountAbove(sig[i], FInt(tot_absTh))]

\* tot = samplingTime * np.sum(sig_mV>tot_absTh, axis=1)
tot(sig) == [i \in DOMAIN sig |-> samplingTime * CountAbove(sig[i], FInt(tot_absTh))]

\* the largest entry of a non-empty array of rationals
FMax(arr) == CHOOSE a \in Range(arr) : \A b \in Range(arr) : ~FGt(b, a)

\* tot_rel with one threshold for the run, from its largest amplitude
tot_rel_runMax(sig, amp) ==
    [i \in DOMAIN sig |->
        samplingTime * CountAbove(sig[i], FMul(tot_relTh, FMax(amp)))]

\* tot_rel = samplingTime * np.sum(sig_mV>tot_relTh*amplitude[:,np.newaxis], axis=1)
tot_rel(sig, amp) ==
    [i \in DOMAIN sig |->
        samplingTime * CountAbove(sig[i], FMul(tot_relTh, amp[i]))]

\* row.std(): the population standard deviation of a non-empty row
std(row) ==
    LET n == FInt(Len(row))
        mean == FDiv(FSum(row), n)
        sq == [j \in DOMAIN row |-> FMul(FSub(row[j], mean), FSub(row[j], mean))]
    IN  Sqrt(FDiv(FSum(sq), n))

\* mask that keeps an event whose std equals the noise floor
mask_inclusive(sig) == [i \in DOMAIN sig |-> RealGe(std(sig[i]), maskTh)]

\* mask = (sig_mV.std(axis=1)>50)
mask(sig) == [i \in DOMAIN sig |-> RealGt(std(sig[i]), maskTh)]

RECURSIVE BoolIndexFrom(_, _, _)
BoolIndexFrom(arr, m, i) ==
    IF i > Len(arr) THEN <<>>
    ELSE (IF m[i] THEN <<arr[i]>> ELSE <<>>) \o BoolIndexFrom(arr, m, i + 1)

\* arr[m]: the entries of arr where the boolean array m is True, in order
BoolIndex(arr, m) == BoolIndexFrom(arr, m, 1)

\* the arrays of lines 145-161; the branch of lines 166-179 picks one
CALOArray(evs, type) ==
    LET bsl == Column(evs, "baseline")
        adc == Column(evs, "data")
        sig == sig_mV(bsl, adc)
        amp == amplitude(Column(evs, "amplitude"))
    IN  CASE type = "amp" -> amp
          [] type = "ampPos" -> amplitudePosition(Column(evs, "amplitude_position"))
          [] type = "int" -> integral(Column(evs, "integral"))
          [] type = "tot" -> tot(sig)
          [] type = "tot_rel" -> tot_rel(sig, amp)
          [] type = "adc" -> adc
          [] type = "wave" -> sig

\* the mask of line 164, from the columns
CALOMask(evs) == mask(sig_mV(Column(evs, "baseline"), Column(evs, "data")))

\* CALOSelect where an unrecognised type falls back to the default 'int'
CALOSelect_default(evs, type) ==
    IF type \in CALOTypes
    THEN Return(BoolIndex(CALOArray(evs, type), CALOMask(evs)))
    ELSE Return(BoolIndex(CALOArray(evs, "int"), CALOMask(evs)))

\* lines 166-181: the requested array under the mask, or the ValueError
CALOSelect(evs, type) ==
    IF type \in CALOTypes
    THEN Return(BoolIndex(CALOArray(evs, type), CALOMask(evs)))
    ELSE ValueErrorFor(type)

CALOReads ==
    <<"read baseline", "read data", "read amplitude",
      "read amplitude_position", "read integral">>

\* getCALO with the type checked before the file is opened
getCALO_typeFirst(file, type, held) ==
    IF type \notin CALOTypes
    THEN [result |-> ValueErrorFor(type), events |-> <<>>]
    ELSE IF ~CanOpen(held)
    THEN [result |-> Raise("OSError"), events |-> <<"open failed">>]
    ELSE IF file.state = "missing"
    THEN [result |-> Raise("FileNotFoundError"), events |-> <<"open failed">>]
    ELSE IF file.state = "nocolumn"
    THEN [result |-> Raise("KeyInFileError"),
          events |-> <<"open", "read failed", "close">>]
    ELSE [result |-> CALOSelect(file.evs, type),
          events |-> <<"open">> \o CALOReads \o <<"close">>]

\* file: the run's ROOT file, [state, evs] with state "missing" (no such
\*   file), "nocolumn" (the channel has no columns in it) or "ok";
\* held: the handles the process holds open.
\* The with statement (line 136) closes the file on every way out of it.
getCALO(file, type, held) ==
    IF ~CanOpen(held)
    THEN [result |-> Raise("OSError"), events |-> <<"open failed">>]
    ELSE IF file.state = "missing"
    THEN [result |-> Raise("FileNotFoundError"), events |-> <<"open failed">>]
    ELSE IF file.state = "nocolumn"
    THEN [result |-> Raise("KeyInFileError"),
          events |-> <<"open", "read failed", "close">>]
    ELSE [result |-> CALOSelect(file.evs, type),
          events |-> <<"open">> \o CALOReads \o <<"close">>]

----------------------------------------------------------------------------
(* The inputs the calls are drawn from                                     *)

\* all sequences over S of a length in lo..hi
SeqsOf(S, lo, hi) == UNION {[1..n -> S] : n \in lo..hi}

\* value-with-uncertainty pairs (value, standard error)
Pairs == {-2, 0, 3, 6} \X {0, 1, 2}

Coefs == {0, 1, 2, 3, 5}
Xs == {-2, 2}

\* the argument lists of the fit functions: a coefficient vector and x, or
\* x followed by one to three coefficients, positionally or by keyword
VectorArgs ==
    LET P == {Vec(v) : v \in SeqsOf(Coefs, 1, 4)}
    IN  {[pos |-> <<p, Num(x)>>, kw |-> <<>>] : p \in P, x \in Xs}
        \cup {[pos |-> <<>>,
               kw |-> <<[name |-> "p", val |-> p], [name |-> "x", val |-> Num(x)]>>] :
                p \in P, x \in Xs}

ExplicitNames == <<"x", "a", "b", "c">>

ExplicitArgs ==
    LET C == {<<x>> \o c : x \in Xs, c \in SeqsOf(Coefs, 1, 3)}
    IN  {[pos |-> [i \in DOMAIN c |-> Num(c[i])], kw |-> <<>>] : c \in C}
        \cup {[pos |-> <<>>,
               kw |-> [i \in DOMAIN c |-> [name |-> ExplicitNames[i], val |-> Num(c[i])]]] :
                c \in C}

FitFunctions == {"linFct", "quadFct", "chargeFct"}

\* a type string no accessor implements
OtherTypes == {"energy"}

DOOCSFiles ==
    {[exists |-> FALSE, chargeToroid |-> <<>>, posX |-> <<>>, posY |-> <<>>]}
    \cup [exists : {TRUE},
          chargeToroid : SeqsOf({7, 9}, 0, MaxShots),
          posX : SeqsOf({-1}, 0, MaxShots),
          posY : SeqsOf({4}, 0, MaxShots)]

\* a waveform (in counts): the first sample at level p, the others at level q
Waveform(p, q) == [j \in 1..NSamples |-> IF j = 1 THEN p ELSE q]

\* the levels <<p, q>> of the waveforms, around the baseline 8192: a pulse
\* over a flat background below the baseline, a pulse over a background
\* above it, a pulse that puts std(sig) at 50 mV for NSamples = 5, and a
\* square wave around the baseline
Levels == {<<4096, 7424>>, <<4096, 9216>>, <<7168, 8192>>, <<7168, 9216>>}

\* the stored per-event scalars (in counts and sample indices)
Scalars ==
    {[amplitude |-> -5120, amplitude_position |-> 1, integral |-> -4096],
     [amplitude |-> 2048, amplitude_position |-> 3, integral |-> 2048]}

Events ==
    {[baseline |-> 8192, data |-> Waveform(l[1], l[2]), amplitude |-> s.amplitude,
      amplitude_position |-> s.amplitude_position, integral |-> s.integral] :
        l \in Levels, s \in Scalars}

CALOFiles ==
    {[state |-> st, evs |-> <<>>] : st \in {"missing", "nocolumn"}}
    \cup {[state |-> "ok", evs |-> e] : e \in SeqsOf(Events, 0, MaxEvents)}

----------------------------------------------------------------------------
(* The state machine: a caller that makes one call after another           *)

NoCall == [fn |-> "none"]

Init ==
    /\ pc = "idle"
    /\ call = NoCall
    /\ result = NoResult
    /\ events = <<>>
    /\ openHandles = 0

Call_ratio ==
    /\ pc = "idle"
    /\ \E A \in Pairs, B \in Pairs, np \in BOOLEAN :
        /\ call' = [fn |-> "ratio", A |-> A, B |-> B, np |-> np]
        /\ result' = ratio(A, B, np)
    /\ events' = <<>>
    /\ pc' = "done"
    /\ UNCHANGED openHandles

Call_fit ==
    /\ pc = "idle"
    /\ \E fn \in FitFunctions, args \in VectorArgs \cup ExplicitArgs :
        /\ call' = [fn |-> fn, pos |-> args.pos, kw |-> args.kw]
        /\ result' = FitCall(fn, args.pos, args.kw)
    /\ events' = <<>>
    /\ pc' = "done"
    /\ UNCHANGED openHandles

Call_getDOOCS ==
    /\ pc = "idle"
    /\ \E file \in DOOCSFiles, type \in DOOCSTypes \cup OtherTypes, gc \in BOOLEAN :
        LET out == getDOOCS(file, type, openHandles, gc)
        IN  /\ call' = [fn |-> "getDOOCS", file |-> file, type |-> type]
            /\ result' = out.result
            /\ events' = out.events
            /\ openHandles' = openHandles + OpenAtEnd(out.events)
    /\ pc' = "done"

Call_getCALO ==
    /\ pc = "idle"
    /\ \E file \in CALOFiles, type \in CALOTypes \cup OtherTypes :
        LET out == getCALO(file, type, openHandles)
        IN  /\ call' = [fn |-> "getCALO", file |-> file, type |-> type]
            /\ result' = out.result
            /\ events' = out.events
            /\ openHandles' = openHandles + OpenAtEnd(out.events)
    /\ pc' = "done"

\* the caller takes the outcome and goes on; handles left open by earlier
\* calls stay open until the interpreter finalises their objects, if ever
Continue ==
    /\ pc = "done"
    /\ pc' = "idle"
    /\ call' = NoCall
    /\ result' = NoResult
    /\ events' = <<>>
    /\ \E k \in 0..openHandles : openHandles' = openHandles - k

Next ==
    \/ Call_ratio
    \/ Call_fit
    \/ Call_getDOOCS
    \/ Call_getCALO
    \/ Continue

Spec == Init /\ [][Next]_vars

----------------------------------------------------------------------------
(* Properties.  They speak of the stored counts directly, not of the       *)
(* arrays the accessor computes.                                           *)

Returned(fn) == pc = "done" /\ call.fn = fn /\ result.kind = "return"

\* the baseline-subtracted samples of an event, in counts
Deviations(e) == [j \in DOMAIN e.data |-> Abs(e.baseline - e.data[j])]

RECURSIVE SumTo(_, _)
SumTo(s, k) == IF k = 0 THEN 0 ELSE SumTo(s, k - 1) + s[k]

\* n^2 times the variance of the samples of d
SpreadOf(d) ==
    Len(d) * SumTo([j \in DOMAIN d |-> d[j] * d[j]], Len(d)) - SumTo(d, Len(d)) * SumTo(d, Len(d))

\* std(sig) > 50 mV: 50 mV are 2048/5 counts, so the variance in counts must
\* exceed 2048^2/25, that is 25 * SpreadOf(d) > 2048^2 * n^2
AboveNoiseFloor(e) ==
    SpreadOf(Deviations(e)) > (4194304 * Len(e.data) * Len(e.data)) \div 25

\* std(sig) = 50 mV exactly
AtNoiseFloor(e) ==
    25 * SpreadOf(Deviations(e)) = 4194304 * Len(e.data) * Len(e.data)

\* the indices of the events of a file that are above the noise floor
Valid(evs) == {i \in DOMAIN evs : AboveNoiseFloor(evs[i])}

\* the k-th smallest member of a set of integers
KthOf(S, k) == CHOOSE i \in S : Cardinality({j \in S : j < i}) = k - 1

\* the event the k-th entry of a getCALO result belongs to
KeptEvent(k) == call.file.evs[KthOf(Valid(call.file.evs), k)]

\* C1: getCALO returns, for each of the seven types, exactly the entries of
\* the events whose std(sig) is strictly greater than 50 mV, in their
\* original order; the length of the result is the number of such events.
C1_OnlyValidEventsReturned ==
    Returned("getCALO") =>
        LET evs == call.file.evs
            all == CALOArray(evs, call.type)
        IN  /\ Len(result.val) = Cardinality(Valid(evs))
            /\ \A k \in 1..Len(result.val) :
                  result.val[k] = all[KthOf(Valid(evs), k)]

\* a run of two events, the first exactly at the noise floor and dropped,
\* the second above it and returned
C1_Witness ==
    /\ Returned("getCALO")
    /\ call.type = "wave"
    /\ Len(call.file.evs) = 2
    /\ AtNoiseFloor(call.file.evs[1])
    /\ AboveNoiseFloor(call.file.evs[2])
    /\ Len(result.val) = 1

\* C3: every 'tot' and 'tot_rel' value returned is a non-negative integer
\* multiple of samplingTime and at most samplingTime times the number of
\* samples of the waveform.
C3_TotIsSampleMultiple ==
    Returned("getCALO") /\ call.type \in {"tot", "tot_rel"} =>
        \A k \in 1..Len(result.val) :
            /\ result.val[k] \in Nat
            /\ result.val[k] % samplingTime = 0
            /\ result.val[k] <= samplingTime * Len(KeptEvent(k).data)

\* a 'tot' result with one event over threshold in every sample and one in
\* a single sample
C3_Witness ==
    /\ Returned("getCALO")
    /\ call.type = "tot"
    /\ \E k \in 1..Len(result.val) : result.val[k] = samplingTime * NSamples
    /\ \E k \in 1..Len(result.val) : result.val[k] = samplingTime

\* C8 as stated: every 'int' value returned is |dacConv * integral| / 1000
\* of the stored integral field, with no other factor.
C8_Original ==
    Returned("getCALO") /\ call.type = "int" =>
        \A k \in 1..Len(result.val) :
            result.val[k] = Frac(125 * Abs(KeptEvent(k).integral), 1024 * 1000)

\* C8, amended: every 'int' value returned is
\* |dacConv * integral| * samplingTime / 1000 of the stored integral field;
\* it is read from the field and not recomputed from the waveform.
C8_IntegralTimesSamplingTime ==
    Returned("getCALO") /\ call.type = "int" =>
        \A k \in 1..Len(result.val) :
            result.val[k] = Frac(125 * Abs(KeptEvent(k).integral) * 2, 1024 * 1000)

\* an 'int' result holding the value 1 mV us of the stored integral -4096
C8_Witness ==
    /\ Returned("getCALO")
    /\ call.type = "int"
    /\ Len(result.val) = 2
    /\ KeptEvent(1).integral = -4096
    /\ result.val[1] = FInt(1)

\* C10: every 'tot_rel' value returned is samplingTime times the number of
\* samples of that event with |baseline - raw| strictly above 0.15 times the
\* event's own |amplitude| (20 * |baseline - raw| > 3 * |amplitude|).
C10_RelativeThresholdPerEvent ==
    Returned("getCALO") /\ call.type = "tot_rel" =>
        \A k \in 1..Len(result.val) :
            LET e == KeptEvent(k)
                d == Deviations(e)
            IN  result.val[k] =
                    samplingTime *
                    Cardinality({j \in DOMAIN d : 20 * d[j] > 3 * Abs(e.amplitude)})

\* two returned events with the same waveform and different amplitudes, the
\* first with samples exactly at its threshold, which are not counted
C10_Witness ==
    /\ Returned("getCALO")
    /\ call.type = "tot_rel"
    /\ Len(result.val) = 2
    /\ KeptEvent(1).data = KeptEvent(2).data
    /\ \E j \in 1..NSamples :
          20 * Deviations(KeptEvent(1))[j] = 3 * Abs(KeptEvent(1).amplitude)
    /\ result.val[1] = samplingTime
    /\ result.val[2] = samplingTime * NSamples

----------------------------------------------------------------------------
(* Properties of ratio and of the fit functions                            *)

\* C6: for A = (a, 0) and B = (b, 0) with b # 0, ratio(A, B) is (a / b, 0);
\* in particular ratio((6,0),(3,0)) = (2, 0).
C6_ExactInputsGiveExactRatio ==
    pc = "done" /\ call.fn = "ratio" /\ call.A[2] = 0 /\ call.B[2] = 0 /\ call.B[1] # 0 =>
        /\ result.kind = "return"
        /\ ~result.val[1].surd /\ result.val[1].d > 0
        /\ result.val[1].n * call.B[1] = call.A[1] * result.val[1].d
        /\ ~result.val[2].surd /\ result.val[2].d > 0 /\ result.val[2].n = 0
        /\ (call.A = <<6, 0>> /\ call.B = <<3, 0>> =>
                result.val[1] = [n |-> 2, d |-> 1, surd |-> FALSE])

\* ratio((6,0),(3,0)) has returned (2, 0)
C6_Witness ==
    /\ Returned("ratio")
    /\ call.A = <<6, 0>> /\ call.B = <<3, 0>>
    /\ result.val[1].n = 2 /\ result.val[1].d = 1
    /\ result.val[2].n = 0 /\ result.val[2].d = 1

FitDone(fn) == pc = "done" /\ call.fn = fn

\* the call passes a coefficient vector and x: fn(p, x) or fn(p=p, x=x)
VectorCall ==
    \/ Len(call.pos) = 2 /\ call.pos[1].vec /\ ~call.pos[2].vec
    \/ call.pos = <<>> /\ KwNames(call.kw) = {"p", "x"}

\* the call passes x and n coefficients one by one: fn(x, a, ...) or
\* fn(x=x, a=a, ...)
ExplicitCall(n) ==
    \/ Len(call.pos) = n + 1 /\ \A i \in DOMAIN call.pos : ~call.pos[i].vec
    \/ call.pos = <<>> /\ KwNames(call.kw) = {ExplicitNames[i] : i \in 1..(n + 1)}

\* the argument passed i-th, or under the given name
Arg(i, name) ==
    IF call.pos # <<>> THEN call.pos[i]
    ELSE (CHOOSE a \in Range(call.kw) : a.name = name).val

\* C4 as stated: linFct(x, a, b) = a*x + b with b defaulting to 0 and
\* quadFct(x, a, b, c) = a*x^2 + b*x + c with c defaulting to 0.
C4_Original ==
    /\ FitDone("linFct") /\ (ExplicitCall(1) \/ ExplicitCall(2)) =>
        LET x == Arg(1, "x").n
            a == Arg(2, "a").n
            b == IF ExplicitCall(2) THEN Arg(3, "b").n ELSE 0
        IN  result.kind = "return" /\ result.val = a * x + b
    /\ FitDone("quadFct") /\ (ExplicitCall(2) \/ ExplicitCall(3)) =>
        LET x == Arg(1, "x").n
            a == Arg(2, "a").n
            b == Arg(3, "b").n
            c == IF ExplicitCall(3) THEN Arg(4, "c").n ELSE 0
        IN  result.kind = "return" /\ result.val = a * x * x + b * x + c

\* C4, amended: linFct and quadFct take a coefficient vector p, ordered
\* from the lowest degree up, and x: linFct(p, x) = p[1]*x + p[0] and
\* quadFct(p, x) = p[2]*x^2 + p[1]*x + p[0], with no default coefficient;
\* a call with x and explicit coefficients raises TypeError.
C4_CoefficientVector ==
    /\ FitDone("linFct") /\ VectorCall /\ Len(Arg(1, "p").v) >= 2 =>
        LET p == Arg(1, "p").v
            x == Arg(2, "x").n
        IN  result.kind = "return" /\ result.val = p[2] * x + p[1]
    /\ FitDone("quadFct") /\ VectorCall /\ Len(Arg(1, "p").v) >= 3 =>
        LET p == Arg(1, "p").v
            x == Arg(2, "x").n
        IN  result.kind = "return" /\ result.val = p[3] * x * x + p[2] * x + p[1]
    /\ (FitDone("linFct") \/ FitDone("quadFct"))
       /\ (ExplicitCall(1) \/ ExplicitCall(2) \/ ExplicitCall(3)) =>
        result.kind = "raise" /\ result.exc = "TypeError"

\* linFct([1, 3], 2) has returned 7
C4_Witness ==
    /\ FitDone("linFct")
    /\ call.pos = <<Vec(<<1, 3>>), Num(2)>>
    /\ result.kind = "return" /\ result.val = 7

\* C5: for every p of length 4 and every x,
\* chargeFct(p, x) = p[3] * (p[2]*x^2 + p[1]*x + p[0]);
\* in particular chargeFct([0,0,1,5], 2) = 20.
C5_ScaledQuadratic ==
    FitDone("chargeFct") /\ VectorCall /\ Len(Arg(1, "p").v) = 4 =>
        LET p == Arg(1, "p").v
            x == Arg(2, "x").n
        IN  /\ result.kind = "return"
            /\ result.val = p[4] * (p[3] * x * x + p[2] * x + p[1])
            /\ (p = <<0, 0, 1, 5>> /\ x = 2 => result.val = 20)

\* chargeFct([0,0,1,5], 2) has returned 20
C5_Witness ==
    /\ FitDone("chargeFct")
    /\ call.pos = <<Vec(<<0, 0, 1, 5>>), Num(2)>>
    /\ result.kind = "return" /\ result.val = 20

----------------------------------------------------------------------------
(* Properties of the accessors' arguments and files                        *)

AccessorDone == pc = "done" /\ call.fn \in {"getDOOCS", "getCALO"}

\* the call's type is none of those its accessor implements
UnsupportedType ==
    \/ call.fn = "getDOOCS" /\ call.type \notin {"charge", "posX", "posY"}
    \/ call.fn = "getCALO"
       /\ call.type \notin {"amp", "ampPos", "int", "tot", "tot_rel", "adc", "wave"}

\* the call opened its file and no read of it failed
FileLoaded == "open" \in Range(events) /\ "read failed" \notin Range(events)

\* C2 as stated: every accessor call with an unsupported type ends in the
\* ValueError.
C2_Original ==
    AccessorDone /\ UnsupportedType =>
        result.kind = "raise" /\ result.exc = "ValueError"

\* C2, amended: no accessor call with an unsupported type returns an array
\* or a default: it ends in an error, which is the ValueError naming the
\* type whenever the run's file could be opened and read.
C2_UnsupportedTypeNeverReturns ==
    AccessorDone /\ UnsupportedType =>
        /\ result.kind = "raise"
        /\ (FileLoaded => result.exc = "ValueError" /\ call.type \in Range(result.msg))

\* getDOOCS of an existing archive with an unsupported type has raised the
\* ValueError naming the type
C2_Witness ==
    /\ AccessorDone /\ UnsupportedType
    /\ call.fn = "getDOOCS" /\ call.file.exists
    /\ result.kind = "raise" /\ result.exc = "ValueError"
    /\ call.type \in Range(result.msg)

\* C7: no accessor call, returning or failing, leaves a file handle it
\* opened open behind.
C7_HandlesReleased == AccessorDone => OpenAtEnd(events) = 0

\* C9 as stated: with an unsupported type the ValueError is raised before
\* any file is opened or read, whatever the state of the run's file.
C9_Original ==
    AccessorDone /\ UnsupportedType =>
        /\ result.kind = "raise" /\ result.exc = "ValueError"
        /\ \A i \in DOMAIN events : events[i] \notin {"open", "open failed"}

\* C9, amended: with an unsupported type the ValueError is raised only
\* after the run's file has been opened (and, in getCALO, read and closed);
\* when the file or the channel's columns are missing, the call ends in the
\* file layer's error and not in the ValueError.
C9_TypeCheckedAfterLoad ==
    AccessorDone /\ UnsupportedType =>
        /\ result.kind = "raise"
        /\ (result.exc = "ValueError" => events # <<>> /\ Head(events) = "open")
        /\ (call.fn = "getCALO" /\ result.exc = "ValueError" =>
                events = <<"open">> \o CALOReads \o <<"close">>)
        /\ (call.fn = "getDOOCS" /\ ~call.file.exists =>
                result.exc \in {"FileNotFoundError", "OSError"})
        /\ (call.fn = "getCALO" /\ call.file.state = "missing" =>
                result.exc \in {"FileNotFoundError", "OSError"})
        /\ (call.fn = "getCALO" /\ call.file.state = "nocolumn" =>
                result.exc \in {"KeyInFileError", "OSError"})

\* getCALO of a run without a file, with an unsupported type, has raised
\* FileNotFoundError
C9_Witness ==
    /\ AccessorDone /\ UnsupportedType
    /\ call.fn = "getCALO" /\ call.file.state = "missing"
    /\ result.kind = "raise" /\ result.exc = "FileNotFoundError"

====
